---------------------------- MODULE Spec2Model ----------------------------
(***************************************************************************)
(* State-machine model of the LiveVoiceCoach component                     *)
(* (src/unnamed/part_002), its audio helpers (src/utils/audioUtils.ts)     *)
(* and its session record (src/types.ts).                                  *)
(*                                                                         *)
(* Two clocks are kept apart, as in the code: the wall clock `now`         *)
(* (Date.now(), milliseconds) drives setTimeout and the capture cooldown;  *)
(* the output clock `currentTime` (outputCtx.currentTime, counted here in  *)
(* sample frames of 1/24000 s) drives buffer scheduling and completion.    *)
(* AudioBuffer.duration is frameCount / sampleRate, i.e. frameCount in     *)
(* these units.                                                            *)
(***************************************************************************)
EXTENDS Integers, Sequences, FiniteSets, TLC

(* ------------------------------ bounds -------------------------------- *)

\* number of 100 ms wall-clock steps explored
MaxTicks == 7
\* number of inbound audio frames per behaviour, playback specification
MaxFrames == 3
\* number of inbound audio frames per behaviour, capture-gating specification
MaxGateFrames == 2
\* number of mute and pause clicks per behaviour
MaxToggles == 1
\* number of parsed structured updates per behaviour
MaxPatches == 2
\* number of whole seconds explored by the session-store specification
MaxSeconds == 1
\* number of clicks on the start button per behaviour, the first included
MaxConnects == 2
\* number of five-minute steps explored by the session-monitor specification
MaxSessionSteps == 4
\* number of frames per behaviour in the specification with fairness
MaxFairFrames == 2
\* number of frames per behaviour in the specification of the audio devices
MaxDeviceFrames == 1
\* the captured samples explored run from -MaxCaptureNum / 32768 to
\* MaxCaptureNum / 32768 in steps of 1 / 32768: a little beyond -2.0 and 2.0
MaxCaptureNum == 70000

(* ------------------------- program constants -------------------------- *)

SampleRate == 24000
TimerDelayMs == 200
CooldownMs == 500
\* the session monitor's thresholds, in minutes
HardTimeoutMinutes == 20
EarlyExitMinutes == 5
MsPerMinute == 60000

\* resolution of the captured samples explored: the step of a 16-bit sample
CaptureDen == 32768

\* the factors of the sample conversions
Int16Scale == 32768       \* int16 / 32768.0
NegativeScale == 32768    \* 0x8000
PositiveScale == 32767    \* 0x7FFF

\* granularity of the clock step: 100 ms of wall time, 2400 sample frames
TickMs == TimerDelayMs \div 2
TickSamples == (SampleRate \div 1000) * TickMs
\* Date.now() at the start of the exploration: any value >= CooldownMs
\* behaves like the real epoch time against a zero timestamp
WallStart == 2 * CooldownMs

\* byte lengths of the inbound frames (response.audio.delta, decoded):
\* 1 byte (no whole sample), 4096 samples, the same plus a stray byte,
\* one second
ByteLens == {1, 8192, 8193, 48000}

VARIABLES
  \* clocks
  now,                  \* Date.now(), ms
  currentTime,          \* outputCtx.currentTime, sample frames
  \* playback scheduler
  nextStartTime,        \* nextStartTimeRef.current, sample frames
  sources,              \* sourcesRef.current: ids of the tracked source nodes
  nodes,                \* source nodes of the output graph whose ended event
                        \* has not been dispatched yet
  timers,               \* pending setTimeout callbacks: due times, in creation order
  isAiSpeaking,         \* isAiSpeakingRef.current
  lastAiSpeechEndTime,  \* lastAiSpeechEndTimeRef.current
  nextId,               \* arrival number of the next decoded frame
  \* capture gating
  isMuted,              \* isMuted / isMutedRef.current
  isPaused,             \* isPaused / isPausedRef.current (output context suspended)
  toggles,              \* mute and pause clicks so far
  \* connection
  connectionState,
  wsState,              \* readyState of the socket in sessionRef.current
  errorMsg,
  oldSockets,           \* readyStates of the sockets a later connect replaced
                        \* in sessionRef and whose close event is pending
  connects,             \* clicks on the start button so far
  \* session monitor and report dialog
  showEarlyExitButton,
  showEmailModal,
  \* audio devices
  refs,                 \* which of streamRef, inputAudioContextRef,
                        \* outputAudioContextRef, inputScriptProcessorRef and
                        \* inputSourceRef hold an object (it is live)
  orphans,              \* live objects no ref holds any more
  \* sample codec
  codec,                \* the sample being converted and how far it has got
  \* session store
  sessionState,
  toolCallCount,
  sessionStartTime,     \* sessionStartTimeRef.current, ms
  prevSession,          \* sessionState before the last parsed structured update
  lastArgs,             \* the arguments of the last parsed structured update
  \* observation of the last handler that ran
  lastOp,               \* which handler ran last
  outbox,               \* the messages that handler sent on the socket
  schedule,             \* buffers scheduled since the last barge-in, in order
  bargedNoAudio         \* a barge-in was handled and no frame enqueued since

audioVars == <<now, currentTime, nextStartTime, sources, nodes, timers,
               isAiSpeaking, lastAiSpeechEndTime, nextId, isMuted, isPaused,
               toggles>>
connVars == <<connectionState, wsState, errorMsg>>
lifeVars == <<oldSockets, connects, showEarlyExitButton, showEmailModal>>
storeVars == <<sessionState, toolCallCount, sessionStartTime, prevSession, lastArgs>>
obsVars == <<lastOp, outbox, schedule, bargedNoAudio>>
devVars == <<refs, orphans, codec>>
vars == <<audioVars, connVars, lifeVars, devVars, storeVars, obsVars>>

(* ------------------------------ helpers ------------------------------- *)

\* the objects connectToOpenAI creates before the socket: the two audio
\* contexts and the microphone stream
ConnectDevices == {"inputCtx", "outputCtx", "stream"}

\* the objects ws.onopen creates: the media stream source and the script
\* processor
OpenDevices == {"source", "processor"}

\* the objects disconnect releases
Devices == ConnectDevices \cup OpenDevices

\* the values of a byte
Bytes == 0..255

\* dataView.getInt16(offset, true): two bytes, low byte first, as a signed
\* 16-bit integer
GetInt16(lo, hi) ==
  LET u == lo + 256 * hi IN IF u >= 32768 THEN u - 65536 ELSE u

\* variant: the sample is taken as the float without scaling
ToFloatUnscaled(int16) == [num |-> int16, den |-> 1]

\* int16 / 32768.0. A float is held as an exact fraction num / den, den > 0:
\* every quotient and product the two conversions compute has fewer
\* significant bits than a Float32 or a Number holds
ToFloat(int16) == [num |-> int16, den |-> Int16Scale]

\* Math.max(-1, Math.min(1, x))
Clamp(x) ==
  IF x.num > x.den THEN [num |-> 1, den |-> 1]
  ELSE IF x.num < -x.den THEN [num |-> -1, den |-> 1]
  ELSE x

\* the integer part of a / b, b > 0: storing a Number in an Int16Array drops
\* its fraction
Truncate(a, b) == IF a >= 0 THEN a \div b ELSE -((-a) \div b)

\* the integer modulo 2^16, as a signed 16-bit integer: what an Int16Array
\* element holds after the store
ToInt16(n) == ((n + 32768) % 65536) - 32768

\* variant: both signs are scaled by 0x8000
ScaledSymmetric(s) == [num |-> s.num * NegativeScale, den |-> s.den]

\* s < 0 ? s * 0x8000 : s * 0x7FFF
Scaled(s) ==
  IF s.num < 0 THEN [num |-> s.num * NegativeScale, den |-> s.den]
  ELSE [num |-> s.num * PositiveScale, den |-> s.den]

\* float32ToInt16 for one sample
Float32ToInt16(x) ==
  LET y == Scaled(Clamp(x)) IN ToInt16(Truncate(y.num, y.den))

\* payload lengths of the frames played out under fairness: 4096 samples
\* (171 ms) and half a second
FairLens == {8192, 24000}

\* payload lengths of the frames of a session that is ended: 4096 samples
DeviceLens == {8192}

\* the captured samples explored: the grid around [-1, 1] and two samples far
\* outside
CaptureNums ==
  (-MaxCaptureNum .. MaxCaptureNum) \cup {-1000 * CaptureDen, 1000 * CaptureDen}

\* no sample is being converted
CodecIdle == [stage |-> "idle", lo |-> 0, hi |-> 0, int16 |-> 0,
              float |-> [num |-> 0, den |-> 1], out |-> 0]

\* decodeAudioData: frameCount = floor(byteLength / (numChannels * 2)), one channel
FrameCount(byteLength) == byteLength \div 2

\* ctx.createBuffer rejects a length of zero frames (NotSupportedError),
\* which the handler's catch logs
DecodeFails(byteLength) == FrameCount(byteLength) = 0

\* variant: every buffer is started at the output clock
StartAtClock(next, clock) == clock

\* variant: the cursor is never raised to the output clock
StartAtCursor(next, clock) == next

\* if (nextStartTime < currentTime) nextStartTime = currentTime
StartAt(next, clock) == IF next < clock THEN clock ELSE next

\* variant: the cursor is not advanced by the buffer's duration
AdvanceCursorStuck(start, dur) == start

\* nextStartTime += audioBuffer.duration
AdvanceCursor(start, dur) == start + dur

\* a node sounds while the output clock is inside its scheduled interval
\* and it has not been stopped
Audible(n) == ~n.stopped /\ n.start <= currentTime /\ currentTime < n.end

\* the ended event of a node is due once it was stopped or has played out
Ended(n) == n.stopped \/ n.end <= currentTime

(* ---------------------------- session store ---------------------------- *)

DimCodes == {"DT", "TR", "CO", "CA", "EP"}

\* an object without properties
Empty == [k \in {} |-> 0]

\* the value read from a property that is not there
Undefined == "undefined"

\* INITIAL_SESSION_STATE; scores are kept in tenths (3.0 is 30)
INITIAL_SESSION_STATE ==
  [dimensions |-> [c \in DimCodes |->
                     [score |-> 30, confidence |-> "LOW", evidenceCount |-> 0,
                      trend |-> "stable"]],
   scoreHistory |-> <<[time |-> 0, DT |-> 30, TR |-> 30, CO |-> 30, CA |-> 30,
                        EP |-> 30]>>,
   evidenceLog |-> <<>>,
   contradictions |-> <<>>,
   conversationPhase |-> "OPENING",
   strengths |-> <<>>,
   developmentPriorities |-> <<>>,
   summary |-> Undefined]

\* variant: the patch's object replaces the dimension's record
SpreadReplace(old, new) == new

\* variant: a field the dimension already has keeps its value
SpreadKeep(old, new) ==
  [f \in DOMAIN old \cup DOMAIN new |-> IF f \in DOMAIN old THEN old[f] ELSE new[f]]

\* { ...old, ...new }
Spread(old, new) ==
  [f \in DOMAIN old \cup DOMAIN new |-> IF f \in DOMAIN new THEN new[f] ELSE old[f]]

\* Merge Dimensions: every key of args.dimensions is merged into a copy of
\* prev.dimensions, field by field
MergeDimensions(dims, args) ==
  IF "dimensions" \in DOMAIN args
  THEN [k \in DOMAIN dims \cup DOMAIN args.dimensions |->
          IF k \in DOMAIN args.dimensions
          THEN Spread(IF k \in DOMAIN dims THEN dims[k] ELSE Empty, args.dimensions[k])
          ELSE dims[k]]
  ELSE dims

\* variant: the history point does not read the merged score
ScoreOfDefault(dims, c) == 0

\* newDimensions.X?.score ?? 0
ScoreOf(dims, c) ==
  IF c \in DOMAIN dims /\ "score" \in DOMAIN dims[c] THEN dims[c].score ELSE 0

\* args.f || prevValue for a string property: the empty string is falsy
StringOr(args, f, prevValue) ==
  IF f \in DOMAIN args /\ args[f] # "" THEN args[f] ELSE prevValue

\* args.f || prevValue for an array property: every array is truthy
ArrayOr(args, f, prevValue) ==
  IF f \in DOMAIN args THEN args[f] ELSE prevValue

\* variant: the elapsed time is not converted to seconds
ElapsedMs == now - sessionStartTime

\* Math.floor((Date.now() - sessionStartTimeRef.current) / 1000)
Elapsed == (now - sessionStartTime) \div 1000

\* variant: the new entry is put in front of the log
PushFront(log, item) == <<item>> \o log

\* variant: the new entry is appended twice
PushTwice(log, item) == Append(Append(log, item), item)

\* const newLog = [...log]; newLog.push(item)
Push(log, item) == Append(log, item)

\* the updater passed to setSessionState
ApplyPatch(prev, args, elapsed) ==
  LET newLog == IF "newEvidence" \in DOMAIN args
                THEN Push(prev.evidenceLog, args.newEvidence)
                ELSE prev.evidenceLog
      newContradictions == IF "contradiction" \in DOMAIN args
                           THEN Push(prev.contradictions, args.contradiction)
                           ELSE prev.contradictions
      newDimensions == MergeDimensions(prev.dimensions, args)
      newPoint == [time |-> elapsed,
                   DT |-> ScoreOf(newDimensions, "DT"),
                   TR |-> ScoreOf(newDimensions, "TR"),
                   CO |-> ScoreOf(newDimensions, "CO"),
                   CA |-> ScoreOf(newDimensions, "CA"),
                   EP |-> ScoreOf(newDimensions, "EP")]
  IN [dimensions |-> newDimensions,
      scoreHistory |-> Append(prev.scoreHistory, newPoint),
      evidenceLog |-> newLog,
      contradictions |-> newContradictions,
      conversationPhase |-> StringOr(args, "phase", prev.conversationPhase),
      strengths |-> ArrayOr(args, "strengths", prev.strengths),
      developmentPriorities |->
        ArrayOr(args, "developmentPriorities", prev.developmentPriorities),
      summary |-> StringOr(args, "summary", prev.summary)]

\* inputs: partial dimension objects, evidence items, a contradiction
Partials ==
  {[score |-> 42], [confidence |-> "high"], [evidenceCount |-> 2],
   [evidenceCount |-> 1], [trend |-> "up"], [score |-> 15, confidence |-> "medium"]}

Ev1 == [timestamp |-> "00:10", dimension |-> "DT", type |-> "positive", summary |-> "e1"]

Ev2 == [timestamp |-> "00:20", dimension |-> "TR", type |-> "negative", summary |-> "e2"]

Con1 == [dimension |-> "CO", earlyStatement |-> "a", lateStatement |-> "b",
         resolution |-> "r"]

\* inputs: values of args.dimensions
DimArgs ==
  {k :> [score |-> 42] : k \in DimCodes}
  \cup {"DT" :> p : p \in Partials}
  \cup {"XX" :> [score |-> 10]}
  \cup {("DT" :> [score |-> 15]) @@ ("EP" :> [confidence |-> "high", evidenceCount |-> 3])}

\* inputs: the parsed arguments of updateAssessmentState
PatchSet ==
  {[dimensions |-> d, phase |-> "CORE"] : d \in DimArgs}
  \cup {[phase |-> ph] : ph \in {"CORE", "CLOSING"}}
  \cup {[dimensions |-> Empty, phase |-> "GAP_FILLING"],
        [dimensions |-> "DT" :> [score |-> 42], newEvidence |-> Ev1, phase |-> "CORE"],
        [newEvidence |-> Ev2, phase |-> "CORE"],
        [contradiction |-> Con1, phase |-> "VALIDATION"],
        [phase |-> "CLOSING", summary |-> "s1", strengths |-> <<"DT">>,
         developmentPriorities |-> <<"CO">>],
        [phase |-> "CLOSING", summary |-> "", strengths |-> <<>>,
         developmentPriorities |-> <<>>],
        [phase |-> "CLOSING", isComplete |-> TRUE, summary |-> "s2"]}

\* inputs: response.function_call_arguments.done messages. The arguments
\* are JSON text, possibly inside a code fence (fence names its kind); json
\* is FALSE for text that is not JSON once the fence is stripped
Messages ==
  {[name |-> "updateAssessmentState", fence |-> "", json |-> TRUE, value |-> a,
    call_id |-> c] : a \in PatchSet, c \in {"call_1", "sidecar_1"}}
  \cup {[name |-> "updateAssessmentState", fence |-> "json", json |-> TRUE,
         value |-> [phase |-> "CORE"], call_id |-> "call_1"],
        [name |-> "updateAssessmentState", fence |-> "", json |-> FALSE,
         value |-> Empty, call_id |-> "call_1"],
        [name |-> "otherTool", fence |-> "", json |-> TRUE, value |-> Empty,
         call_id |-> "call_1"]}

\* variant: text that is not JSON is read as an object without properties
ParsedLenient(m) == [ok |-> TRUE, args |-> m.value]

\* JSON.parse of the arguments once the fence is stripped: it throws (ok is
\* FALSE) or returns the value
Parsed(m) == [ok |-> m.json, args |-> m.value]

\* inputs: patches that set the confidence of all five dimensions, in the
\* spelling the monitor compares with and in the spelling of DimensionState,
\* and patches that set the confidence of one dimension
ConfidencePatches ==
  {[dimensions |-> [k \in DimCodes |-> [confidence |-> c]], phase |-> "CORE"] :
     c \in {"high", "HIGH"}}
  \cup {[dimensions |-> "DT" :> [confidence |-> c], phase |-> "CORE"] :
          c \in {"medium", "high"}}

\* inputs: the messages that carry them
MonitorMessages ==
  {[name |-> "updateAssessmentState", fence |-> "", json |-> TRUE, value |-> a,
    call_id |-> "call_1"] : a \in ConfidencePatches}

\* variant: no call is taken for an injection of the sidecar
IsSidecarNever(callId) == FALSE

\* call_id.startsWith('sidecar_')
IsSidecar(callId) == callId = "sidecar_1"

\* the conversation.item.create message whose item is the function_call_output
\* of the call
ToolOutput(callId) == "conversation.item.create function_call_output " \o callId

\* inputs: patches for the reply protocol, the last one ends the session
ReplyPatches ==
  {[phase |-> "CORE"],
   [newEvidence |-> Ev1, phase |-> "CORE"],
   [dimensions |-> "DT" :> [score |-> 42], phase |-> "VALIDATION"],
   [phase |-> "CLOSING", isComplete |-> TRUE, summary |-> "s2"]}

\* inputs: the messages that carry them, from the model and from the sidecar,
\* a message whose arguments are not JSON and a call of another tool
ReplyMessages ==
  {[name |-> "updateAssessmentState", fence |-> "", json |-> TRUE, value |-> a,
    call_id |-> c] : a \in ReplyPatches, c \in {"call_1", "call_2", "sidecar_1"}}
  \cup {[name |-> "updateAssessmentState", fence |-> "", json |-> FALSE,
         value |-> Empty, call_id |-> "call_2"],
        [name |-> "otherTool", fence |-> "", json |-> TRUE, value |-> Empty,
         call_id |-> "call_2"]}

(* ------------------------------- Init --------------------------------- *)

\* the state right after ws.onopen of a fresh connection
Init ==
  /\ now = WallStart
  /\ currentTime = 0
  /\ nextStartTime = 0
  /\ sources = {}
  /\ nodes = {}
  /\ timers = <<>>
  /\ isAiSpeaking = FALSE
  /\ lastAiSpeechEndTime = 0
  /\ nextId = 0
  /\ isMuted = FALSE
  /\ isPaused = FALSE
  /\ toggles = 0
  /\ connectionState = "CONNECTED"
  /\ wsState = "OPEN"
  /\ errorMsg = "null"
  /\ oldSockets = <<>>
  /\ connects = 1
  /\ showEarlyExitButton = FALSE
  /\ showEmailModal = FALSE
  /\ refs = Devices
  /\ orphans = {}
  /\ codec = CodecIdle
  /\ sessionState = INITIAL_SESSION_STATE
  /\ toolCallCount = 0
  /\ sessionStartTime = WallStart
  /\ prevSession = INITIAL_SESSION_STATE
  /\ lastArgs = Empty
  /\ lastOp = "onopen"
  /\ outbox = <<"session.update">>
  /\ schedule = <<>>
  /\ bargedNoAudio = FALSE

(* ------------------------------ actions ------------------------------- *)

\* ws.onmessage, response.audio.delta with a frame that decodes
Enqueue(byteLength) ==
  /\ wsState = "OPEN"
  /\ ~DecodeFails(byteLength)
  /\ LET t == StartAt(nextStartTime, currentTime)
         dur == FrameCount(byteLength)
     IN /\ nodes' = nodes \cup {[id |-> nextId, start |-> t, end |-> t + dur,
                                  stopped |-> FALSE]}
        /\ nextStartTime' = AdvanceCursor(t, dur)
        /\ schedule' = Append(schedule, [start |-> t, dur |-> dur,
                                          late |-> nextStartTime < currentTime])
  /\ sources' = sources \cup {nextId}
  /\ isAiSpeaking' = TRUE
  /\ nextId' = nextId + 1
  /\ bargedNoAudio' = FALSE
  /\ lastOp' = "enqueue"
  /\ outbox' = <<>>
  /\ UNCHANGED <<now, currentTime, timers, lastAiSpeechEndTime, isMuted, isPaused,
                 toggles>>
  /\ UNCHANGED <<connVars, storeVars>>
  /\ UNCHANGED <<lifeVars, devVars>>

\* ws.onmessage, response.audio.delta with a frame that does not decode:
\* the catch logs and nothing is scheduled
EnqueueUndecodable(byteLength) ==
  /\ wsState = "OPEN"
  /\ DecodeFails(byteLength)
  /\ lastOp' = "decodeError"
  /\ outbox' = <<>>
  /\ UNCHANGED <<audioVars, connVars, storeVars, schedule, bargedNoAudio>>
  /\ UNCHANGED <<lifeVars, devVars>>

\* source.onended of node n
OnEnded(n) ==
  /\ n \in nodes
  /\ Ended(n)
  /\ nodes' = nodes \ {n}
  /\ sources' = sources \ {n.id}
  /\ timers' = IF sources' = {} THEN Append(timers, now + TimerDelayMs) ELSE timers
  /\ lastOp' = "onended"
  /\ outbox' = <<>>
  /\ UNCHANGED <<now, currentTime, nextStartTime, isAiSpeaking, lastAiSpeechEndTime,
                 nextId, isMuted, isPaused, toggles>>
  /\ UNCHANGED <<connVars, storeVars, schedule, bargedNoAudio>>
  /\ UNCHANGED <<lifeVars, devVars>>

\* variant: the callback clears the flag and records no timestamp
TimerFireNoStamp ==
  /\ timers # <<>>
  /\ Head(timers) <= now
  /\ timers' = Tail(timers)
  /\ isAiSpeaking' = FALSE
  /\ lastOp' = "timer"
  /\ outbox' = <<>>
  /\ UNCHANGED <<now, currentTime, nextStartTime, sources, nodes, nextId,
                 isMuted, isPaused, toggles, lastAiSpeechEndTime>>
  /\ UNCHANGED <<connVars, storeVars, schedule, bargedNoAudio>>
  /\ UNCHANGED <<lifeVars, devVars>>

\* the setTimeout callback armed by source.onended
TimerFire ==
  /\ timers # <<>>
  /\ Head(timers) <= now
  /\ timers' = Tail(timers)
  /\ isAiSpeaking' = FALSE
  /\ lastAiSpeechEndTime' = now
  /\ lastOp' = "timer"
  /\ outbox' = <<>>
  /\ UNCHANGED <<now, currentTime, nextStartTime, sources, nodes, nextId,
                 isMuted, isPaused, toggles>>
  /\ UNCHANGED <<connVars, storeVars, schedule, bargedNoAudio>>
  /\ UNCHANGED <<lifeVars, devVars>>

\* src.stop() on every tracked source
StopAll(ns, tracked) ==
  {IF n.id \in tracked THEN [n EXCEPT !.stopped = TRUE] ELSE n : n \in ns}

\* variant: the cursor is left where it was
BargeInStateKeepsCursor(ps) ==
  [sources |-> {}, isAiSpeaking |-> FALSE, nextStartTime |-> ps.nextStartTime,
   lastAiSpeechEndTime |-> 0]

\* variant: only one tracked source is dropped from the set
BargeInStateDropsOne(ps) ==
  [sources |-> IF ps.sources = {} THEN {}
               ELSE ps.sources \ {CHOOSE i \in ps.sources : \A j \in ps.sources : i <= j},
   isAiSpeaking |-> FALSE, nextStartTime |-> 0, lastAiSpeechEndTime |-> 0]

\* the playback state a barge-in leaves, from the playback state ps
BargeInState(ps) ==
  [sources |-> {}, isAiSpeaking |-> FALSE, nextStartTime |-> 0,
   lastAiSpeechEndTime |-> 0]

PlaybackState ==
  [sources |-> sources, isAiSpeaking |-> isAiSpeaking,
   nextStartTime |-> nextStartTime, lastAiSpeechEndTime |-> lastAiSpeechEndTime]

\* variant: the playback state is cleared and nothing is sent
BargeInNoClear ==
  /\ wsState = "OPEN"
  /\ nodes' = StopAll(nodes, sources)
  /\ LET ps == BargeInState(PlaybackState)
     IN /\ sources' = ps.sources
        /\ isAiSpeaking' = ps.isAiSpeaking
        /\ nextStartTime' = ps.nextStartTime
        /\ lastAiSpeechEndTime' = ps.lastAiSpeechEndTime
  /\ schedule' = <<>>
  /\ bargedNoAudio' = TRUE
  /\ lastOp' = "bargeIn"
  /\ outbox' = <<>>
  /\ UNCHANGED <<now, currentTime, timers, nextId, isMuted, isPaused, toggles>>
  /\ UNCHANGED <<connVars, storeVars>>
  /\ UNCHANGED <<lifeVars, devVars>>

\* ws.onmessage, input_audio_buffer.speech_started
BargeIn ==
  /\ wsState = "OPEN"
  /\ nodes' = StopAll(nodes, sources)
  /\ LET ps == BargeInState(PlaybackState)
     IN /\ sources' = ps.sources
        /\ isAiSpeaking' = ps.isAiSpeaking
        /\ nextStartTime' = ps.nextStartTime
        /\ lastAiSpeechEndTime' = ps.lastAiSpeechEndTime
  /\ schedule' = <<>>
  /\ bargedNoAudio' = TRUE
  /\ lastOp' = "bargeIn"
  /\ outbox' = <<"input_audio_buffer.clear">>
  /\ UNCHANGED <<now, currentTime, timers, nextId, isMuted, isPaused, toggles>>
  /\ UNCHANGED <<connVars, storeVars>>
  /\ UNCHANGED <<lifeVars, devVars>>

\* the first return of processor.onaudioprocess
Gated == isMuted \/ isPaused \/ isAiSpeaking

\* variant: a block exactly 500 ms after the timestamp is still dropped
InCooldownInclusive == now - lastAiSpeechEndTime <= CooldownMs

\* the second return of processor.onaudioprocess
InCooldown == now - lastAiSpeechEndTime < CooldownMs

\* processor.onaudioprocess for one microphone block
MicBlock ==
  /\ lastOp' = "mic"
  /\ outbox' = IF ~Gated /\ ~InCooldown /\ wsState = "OPEN"
               THEN <<"input_audio_buffer.append">>
               ELSE <<>>
  /\ UNCHANGED <<audioVars, connVars, storeVars, schedule, bargedNoAudio>>
  /\ UNCHANGED <<lifeVars, devVars>>

\* toggleMute, with the effect that copies the state to isMutedRef
ToggleMute ==
  /\ toggles < MaxToggles
  /\ toggles' = toggles + 1
  /\ isMuted' = ~isMuted
  /\ lastOp' = "toggleMute"
  /\ outbox' = <<>>
  /\ UNCHANGED <<now, currentTime, nextStartTime, sources, nodes, timers,
                 isAiSpeaking, lastAiSpeechEndTime, nextId, isPaused>>
  /\ UNCHANGED <<connVars, storeVars, schedule, bargedNoAudio>>
  /\ UNCHANGED <<lifeVars, devVars>>

\* togglePause, with the effect that copies the state to isPausedRef; the
\* output context is suspended while paused
TogglePause ==
  /\ toggles < MaxToggles
  /\ toggles' = toggles + 1
  /\ isPaused' = ~isPaused
  /\ lastOp' = "togglePause"
  /\ outbox' = <<>>
  /\ UNCHANGED <<now, currentTime, nextStartTime, sources, nodes, timers,
                 isAiSpeaking, lastAiSpeechEndTime, nextId, isMuted>>
  /\ UNCHANGED <<connVars, storeVars, schedule, bargedNoAudio>>
  /\ UNCHANGED <<lifeVars, devVars>>

\* an ended event or a timer callback is due and not yet dispatched
EventDue ==
  \/ \E n \in nodes : Ended(n)
  \/ timers # <<>> /\ Head(timers) <= now

\* 100 ms pass; the output clock stands still while its context is suspended.
\* The event loop dispatches the events that are due before the next 100 ms
\* have passed; their order among themselves and against arriving messages
\* is free.
Tick ==
  /\ now < WallStart + MaxTicks * TickMs
  /\ ~EventDue
  /\ now' = now + TickMs
  /\ currentTime' = IF isPaused THEN currentTime ELSE currentTime + TickSamples
  /\ lastOp' = "tick"
  /\ outbox' = <<>>
  /\ UNCHANGED <<nextStartTime, sources, nodes, timers, isAiSpeaking,
                 lastAiSpeechEndTime, nextId, isMuted, isPaused, toggles>>
  /\ UNCHANGED <<connVars, storeVars, schedule, bargedNoAudio>>
  /\ UNCHANGED <<lifeVars, devVars>>

\* ws.onmessage, response.function_call_arguments.done
OnFunctionCallDone(m) ==
  /\ wsState = "OPEN"
  /\ IF m.name # "updateAssessmentState"
     THEN /\ lastOp' = "ignored"
          /\ outbox' = <<>>
          /\ UNCHANGED <<connVars, storeVars>>
     ELSE IF ~Parsed(m).ok
     THEN \* JSON.parse throws: the catch logs and sets the error message
          /\ errorMsg' = "Failed to update dashboard: Invalid AI data"
          /\ lastOp' = "patchError"
          /\ outbox' = <<>>
          /\ UNCHANGED <<connectionState, wsState, storeVars>>
     ELSE LET args == Parsed(m).args
              complete == "isComplete" \in DOMAIN args /\ args.isComplete
          IN /\ toolCallCount' = toolCallCount + 1
             /\ sessionState' = ApplyPatch(sessionState, args, Elapsed)
             /\ prevSession' = sessionState
             /\ lastArgs' = args
             /\ connectionState' = IF complete THEN "COMPLETE" ELSE connectionState
             /\ wsState' = IF complete THEN "CLOSING" ELSE wsState
             /\ outbox' = IF IsSidecar(m.call_id) THEN <<>>
                          ELSE <<ToolOutput(m.call_id), "response.create">>
             /\ lastOp' = "patch"
             /\ UNCHANGED <<errorMsg, sessionStartTime>>
  /\ UNCHANGED <<audioVars, schedule, bargedNoAudio>>
  /\ UNCHANGED <<lifeVars, devVars>>

\* variant: the close event always ends in DISCONNECTED
AfterCloseAlways(prev) == "DISCONNECTED"

\* the updater ws.onclose passes to setConnectionState
AfterClose(prev) == IF prev \in {"ERROR", "COMPLETE"} THEN prev ELSE "DISCONNECTED"

\* ws.onclose, after the client's close() or a close by the remote side
OnClose ==
  /\ wsState \in {"OPEN", "CLOSING"}
  /\ wsState' = "CLOSED"
  /\ connectionState' = AfterClose(connectionState)
  /\ lastOp' = "onclose"
  /\ outbox' = <<>>
  /\ UNCHANGED <<audioVars, errorMsg, storeVars, schedule, bargedNoAudio>>
  /\ UNCHANGED <<lifeVars, devVars>>

\* connectToOpenAI up to the creation of the socket, microphone granted. The
\* start button is offered in DISCONNECTED, ERROR and COMPLETE. Neither the
\* socket of the session before nor its audio contexts are closed here; the
\* socket stays with its handlers until its close event. The new output
\* context starts its clock at 0.
Connect ==
  /\ connectionState \in {"DISCONNECTED", "ERROR", "COMPLETE"}
  /\ connects < MaxConnects
  /\ connects' = connects + 1
  /\ connectionState' = "CONNECTING"
  /\ errorMsg' = "null"
  /\ sessionState' = INITIAL_SESSION_STATE
  /\ sessionStartTime' = now
  /\ prevSession' = INITIAL_SESSION_STATE
  /\ lastArgs' = Empty
  /\ oldSockets' = IF wsState = "CLOSED" THEN oldSockets ELSE Append(oldSockets, wsState)
  /\ wsState' = "CONNECTING"
  /\ currentTime' = 0
  /\ lastOp' = "connect"
  /\ outbox' = <<>>
  /\ UNCHANGED <<now, nextStartTime, sources, nodes, timers, isAiSpeaking,
                 lastAiSpeechEndTime, nextId, isMuted, isPaused, toggles>>
  /\ refs' = refs \cup ConnectDevices
  /\ orphans' = orphans \cup (refs \cap ConnectDevices)
  /\ UNCHANGED <<toolCallCount, showEarlyExitButton, showEmailModal, schedule,
                 bargedNoAudio, codec>>

\* ws.onopen
OnOpen ==
  /\ wsState = "CONNECTING"
  /\ wsState' = "OPEN"
  /\ connectionState' = "CONNECTED"
  /\ lastOp' = "onopen"
  /\ outbox' = <<"session.update">>
  /\ refs' = refs \cup OpenDevices
  /\ orphans' = orphans \cup (refs \cap OpenDevices)
  /\ UNCHANGED <<audioVars, errorMsg, lifeVars, codec, storeVars, schedule, bargedNoAudio>>

\* ws.onerror and the close event dispatched with it: the connection could
\* not be established, has failed, or was closed by the client before it was
\* established; the socket is closed when the error event is dispatched
OnError ==
  /\ wsState \in {"CONNECTING", "OPEN", "ABORTING"}
  /\ wsState' = "CLOSED"
  /\ connectionState' = AfterClose("ERROR")
  /\ errorMsg' = "Connection failed. Ensure backend relay is running."
  /\ lastOp' = "onerror"
  /\ outbox' = <<>>
  /\ UNCHANGED <<audioVars, lifeVars, devVars, storeVars, schedule, bargedNoAudio>>

\* ws.onmessage for a message of type error: the message is logged and shown,
\* the connection state and the socket are not touched
OnErrorMessage ==
  /\ wsState = "OPEN"
  /\ errorMsg' = "Backend Error: Unknown error"
  /\ lastOp' = "errorMessage"
  /\ outbox' = <<>>
  /\ UNCHANGED <<connectionState, wsState>>
  /\ UNCHANGED <<audioVars, lifeVars, devVars, storeVars, schedule, bargedNoAudio>>

\* ws.onclose of a socket that a later connect replaced in sessionRef: the
\* handler is the same closure over setConnectionState
StaleClose ==
  /\ oldSockets # <<>>
  /\ oldSockets' = Tail(oldSockets)
  /\ IF Head(oldSockets) = "ABORTING"
     THEN \* closed before it was established: its error event comes first
          /\ connectionState' = AfterClose("ERROR")
          /\ errorMsg' = "Connection failed. Ensure backend relay is running."
     ELSE /\ connectionState' = AfterClose(connectionState)
          /\ errorMsg' = errorMsg
  /\ lastOp' = "onclose"
  /\ outbox' = <<>>
  /\ UNCHANGED <<audioVars, wsState, connects, showEarlyExitButton,
                 showEmailModal, devVars, storeVars, schedule, bargedNoAudio>>

\* readyState of a socket after close(): an open socket starts the closing
\* handshake; a socket still connecting is failed (readyState CLOSING, here
\* ABORTING, with an error event before its close event); close() on a socket
\* closing or closed does nothing
AfterCloseCall(ws) ==
  CASE ws = "OPEN" -> "CLOSING"
    [] ws = "CONNECTING" -> "ABORTING"
    [] OTHER -> ws

\* the fields disconnect reads or writes
DeviceState ==
  [wsState |-> wsState, refs |-> refs, isMuted |-> isMuted,
   isPaused |-> isPaused, nextStartTime |-> nextStartTime,
   sources |-> sources, isAiSpeaking |-> isAiSpeaking]

\* variant: the microphone stream is not stopped
DisconnectStateKeepsStream(x) ==
  [wsState |-> AfterCloseCall(x.wsState), refs |-> x.refs \cap {"stream"},
   isMuted |-> FALSE, isPaused |-> FALSE, nextStartTime |-> 0,
   sources |-> {}, isAiSpeaking |-> FALSE]

\* disconnect: close() on the socket in sessionRef, every object a ref holds
\* is stopped, closed or disconnected and its ref set to null, the playback
\* state and the two toggles are reset. None of the calls throws.
DisconnectState(x) ==
  [wsState |-> AfterCloseCall(x.wsState), refs |-> {},
   isMuted |-> FALSE, isPaused |-> FALSE, nextStartTime |-> 0,
   sources |-> {}, isAiSpeaking |-> FALSE]

\* disconnect() called in the state x; ended events and timer callbacks
\* already pending stay pending
Disconnect(x) ==
  LET y == DisconnectState(x)
  IN /\ wsState' = y.wsState
     /\ refs' = y.refs
     /\ isMuted' = y.isMuted
     /\ isPaused' = y.isPaused
     /\ nextStartTime' = y.nextStartTime
     /\ sources' = y.sources
     /\ isAiSpeaking' = y.isAiSpeaking
     /\ UNCHANGED <<now, currentTime, nodes, timers, lastAiSpeechEndTime,
                    nextId, toggles>>

\* the handlers that call disconnect, as lastOp names them
DisconnectOps == {"skipAndEnd", "finalize", "selectKey", "connectDenied"}

\* handleDisconnectBtn, the End Session button of a connected session: the
\* session is paused and the report dialog opens
HandleDisconnectBtn ==
  /\ connectionState = "CONNECTED"
  /\ ~showEmailModal
  /\ isPaused' = TRUE
  /\ showEmailModal' = TRUE
  /\ lastOp' = "endButton"
  /\ outbox' = <<>>
  /\ UNCHANGED <<now, currentTime, nextStartTime, sources, nodes, timers,
                 isAiSpeaking, lastAiSpeechEndTime, nextId, isMuted, toggles>>
  /\ UNCHANGED <<connVars, oldSockets, connects, showEarlyExitButton, devVars,
                 storeVars, schedule, bargedNoAudio>>

\* the button Skip & End without Report of the report dialog
SkipAndEnd ==
  /\ showEmailModal
  /\ showEmailModal' = FALSE
  /\ Disconnect(DeviceState)
  /\ connectionState' = "DISCONNECTED"
  /\ lastOp' = "skipAndEnd"
  /\ outbox' = <<>>
  /\ UNCHANGED <<errorMsg, oldSockets, connects, showEarlyExitButton, orphans,
                 codec, storeVars, schedule, bargedNoAudio>>

\* handleFinalizeSession with a valid address and a backend that answers ok
HandleFinalizeSession ==
  /\ showEmailModal
  /\ showEmailModal' = FALSE
  /\ errorMsg' = "null"
  /\ Disconnect(DeviceState)
  /\ connectionState' = "COMPLETE"
  /\ lastOp' = "finalize"
  /\ outbox' = <<>>
  /\ UNCHANGED <<oldSockets, connects, showEarlyExitButton, orphans, codec,
                 storeVars, schedule, bargedNoAudio>>

\* handleSelectKey where window.aistudio exists; the link Switch API Key is
\* shown in every connection state but CONNECTED
HandleSelectKey ==
  /\ connectionState # "CONNECTED"
  /\ Disconnect(DeviceState)
  /\ connectionState' = "DISCONNECTED"
  /\ errorMsg' = "null"
  /\ lastOp' = "selectKey"
  /\ outbox' = <<>>
  /\ UNCHANGED <<lifeVars, orphans, codec, storeVars, schedule, bargedNoAudio>>

\* connectToOpenAI with the microphone refused: the two contexts have been
\* created and stored in their refs when getUserMedia rejects; no socket is
\* created; the catch calls disconnect, which finds the socket of the session
\* before in sessionRef
ConnectDenied ==
  /\ connectionState \in {"DISCONNECTED", "ERROR", "COMPLETE"}
  /\ connects < MaxConnects
  /\ connects' = connects + 1
  /\ sessionState' = INITIAL_SESSION_STATE
  /\ sessionStartTime' = now
  /\ prevSession' = INITIAL_SESSION_STATE
  /\ lastArgs' = Empty
  /\ orphans' = orphans \cup (refs \cap {"inputCtx", "outputCtx"})
  /\ Disconnect([DeviceState EXCEPT !.refs = refs \cup {"inputCtx", "outputCtx"}])
  /\ connectionState' = "ERROR"
  /\ errorMsg' = "Microphone permission denied. Please allow access in your browser settings."
  /\ lastOp' = "connectDenied"
  /\ outbox' = <<>>
  /\ UNCHANGED <<oldSockets, toolCallCount, showEarlyExitButton, showEmailModal,
                 codec, schedule, bargedNoAudio>>

\* elapsedMinutes >= minutes, elapsedMinutes being elapsedMs / 60000
ElapsedAtLeast(minutes) == now - sessionStartTime >= minutes * MsPerMinute

\* hasAllDims && Object.values(dims).every(d => d.confidence === 'high')
AllHigh(dims) ==
  /\ Cardinality(DOMAIN dims) >= 5
  /\ \A k \in DOMAIN dims : "confidence" \in DOMAIN dims[k] /\ dims[k].confidence = "high"

\* variant: the flag follows the current confidences
TrackEarlyExit(flag, allHigh) == allHigh

\* if (allHigh) setShowEarlyExitButton(true)
RaiseEarlyExit(flag, allHigh) == flag \/ allHigh

\* the callback of the session monitor's interval, which runs while the
\* state is CONNECTED and not paused, one second after the effect was last
\* set up. At the cap it calls handleDisconnectBtn, which pauses through
\* togglePause and opens the report dialog, and sets the error message.
Monitor ==
  /\ connectionState = "CONNECTED"
  /\ ~isPaused
  /\ IF ElapsedAtLeast(HardTimeoutMinutes)
     THEN /\ isPaused' = TRUE
          /\ showEmailModal' = TRUE
          /\ errorMsg' = "Maximum session time reached (20 mins). Please finalize your report."
          /\ lastOp' = "hardTimeout"
          /\ UNCHANGED showEarlyExitButton
     ELSE /\ showEarlyExitButton' =
               IF ElapsedAtLeast(EarlyExitMinutes)
               THEN RaiseEarlyExit(showEarlyExitButton, AllHigh(sessionState.dimensions))
               ELSE showEarlyExitButton
          /\ lastOp' = "monitor"
          /\ UNCHANGED <<isPaused, showEmailModal, errorMsg>>
  /\ outbox' = <<>>
  /\ UNCHANGED <<now, currentTime, nextStartTime, sources, nodes, timers,
                 isAiSpeaking, lastAiSpeechEndTime, nextId, isMuted, toggles>>
  /\ UNCHANGED <<connectionState, wsState, oldSockets, connects, devVars,
                 storeVars, schedule, bargedNoAudio>>

\* five minutes pass with no audio event due
Minutes ==
  /\ now < WallStart + MaxSessionSteps * EarlyExitMinutes * MsPerMinute
  /\ ~EventDue
  /\ now' = now + EarlyExitMinutes * MsPerMinute
  /\ currentTime' = IF isPaused THEN currentTime
                    ELSE currentTime + EarlyExitMinutes * 60 * SampleRate
  /\ lastOp' = "tick"
  /\ outbox' = <<>>
  /\ UNCHANGED <<nextStartTime, sources, nodes, timers, isAiSpeaking,
                 lastAiSpeechEndTime, nextId, isMuted, isPaused, toggles>>
  /\ UNCHANGED <<connVars, lifeVars, devVars, storeVars, schedule, bargedNoAudio>>

\* one second passes with no audio event due
Second ==
  /\ now < WallStart + MaxSeconds * 1000
  /\ ~EventDue
  /\ now' = now + 1000
  /\ currentTime' = IF isPaused THEN currentTime ELSE currentTime + SampleRate
  /\ lastOp' = "tick"
  /\ outbox' = <<>>
  /\ UNCHANGED <<nextStartTime, sources, nodes, timers, isAiSpeaking,
                 lastAiSpeechEndTime, nextId, isMuted, isPaused, toggles>>
  /\ UNCHANGED <<connVars, storeVars, schedule, bargedNoAudio>>
  /\ UNCHANGED <<lifeVars, devVars>>

\* decodeAudioData for one sample of the payload: the two bytes are read as
\* an integer and stored as a float
DecodeSample(lo, hi) ==
  /\ codec.stage = "idle"
  /\ codec' = [stage |-> "decoded", lo |-> lo, hi |-> hi,
               int16 |-> GetInt16(lo, hi),
               float |-> ToFloat(GetInt16(lo, hi)), out |-> 0]
  /\ UNCHANGED <<audioVars, connVars, lifeVars, refs, orphans, storeVars, obsVars>>

\* float32ToInt16 for the sample decoded before
EncodeSample ==
  /\ codec.stage = "decoded"
  /\ codec' = [codec EXCEPT !.stage = "encoded",
                            !.out = Float32ToInt16(codec.float)]
  /\ UNCHANGED <<audioVars, connVars, lifeVars, refs, orphans, storeVars, obsVars>>

\* one sample of inputData, the channel data of a captured block
CaptureSample(num) ==
  /\ codec.stage = "idle"
  /\ codec' = [CodecIdle EXCEPT !.stage = "captured",
                                !.float = [num |-> num, den |-> CaptureDen]]
  /\ UNCHANGED <<audioVars, connVars, lifeVars, refs, orphans, storeVars, obsVars>>

\* float32ToInt16 for the sample captured before
ConvertSample ==
  /\ codec.stage = "captured"
  /\ codec' = [codec EXCEPT !.stage = "converted",
                            !.out = Float32ToInt16(codec.float)]
  /\ UNCHANGED <<audioVars, connVars, lifeVars, refs, orphans, storeVars, obsVars>>

\* nothing is to come: no ended event, no timer callback, and the cooldown
\* is over
Quiet == nodes = {} /\ timers = <<>> /\ ~InCooldown

\* 100 ms pass while something is to come; as Tick, without a horizon
Advance ==
  /\ ~Quiet
  /\ ~EventDue
  /\ now' = now + TickMs
  /\ currentTime' = IF isPaused THEN currentTime ELSE currentTime + TickSamples
  /\ lastOp' = "tick"
  /\ outbox' = <<>>
  /\ UNCHANGED <<nextStartTime, sources, nodes, timers, isAiSpeaking,
                 lastAiSpeechEndTime, nextId, isMuted, isPaused, toggles>>
  /\ UNCHANGED <<connVars, storeVars, schedule, bargedNoAudio>>
  /\ UNCHANGED <<lifeVars, devVars>>

(* --------------------------- specifications --------------------------- *)

\* the handlers of the playback scheduler and of the capture callback
PlaybackStep ==
  \/ \E b \in ByteLens : EnqueueUndecodable(b)
  \/ \E n \in nodes : OnEnded(n)
  \/ TimerFire
  \/ BargeIn
  \/ MicBlock
  \/ Tick

\* playback and capture of a connected session, no mute or pause click
Next ==
  \/ \E b \in ByteLens : nextId < MaxFrames /\ Enqueue(b)
  \/ PlaybackStep

Spec == Init /\ [][Next]_vars

\* playback and capture with the clock, the event loop and the capture
\* callback running: time passes as long as anything is to come, an event that
\* is due is dispatched, the script processor keeps delivering blocks
NextFair ==
  \/ \E b \in FairLens : nextId < MaxFairFrames /\ Enqueue(b)
  \/ \E n \in nodes : OnEnded(n)
  \/ TimerFire
  \/ BargeIn
  \/ MicBlock
  \/ Advance

Fairness ==
  /\ WF_vars(Advance)
  /\ WF_vars(\E n \in nodes : OnEnded(n))
  /\ WF_vars(TimerFire)
  /\ WF_vars(MicBlock)

SpecFair == Init /\ [][NextFair]_vars /\ Fairness

\* the same with the user's mute and pause clicks
NextGate ==
  \/ \E b \in ByteLens : nextId < MaxGateFrames /\ Enqueue(b)
  \/ PlaybackStep
  \/ ToggleMute
  \/ TogglePause

SpecGate == Init /\ [][NextGate]_vars

\* the structured updates of a connected session
NextStore ==
  \/ \E m \in Messages : toolCallCount < MaxPatches /\ OnFunctionCallDone(m)
  \/ OnClose
  \/ Second

SpecStore == Init /\ [][NextStore]_vars

\* the structured updates and the replies to them
NextReply ==
  \/ \E m \in ReplyMessages : toolCallCount < MaxPatches /\ OnFunctionCallDone(m)
  \/ OnClose
  \/ Second

SpecReply == Init /\ [][NextReply]_vars

\* inputs: the messages whose patch sets dimension fields and the phase
MergeMessages ==
  {m \in Messages : /\ m.json
                    /\ DOMAIN m.value = {"dimensions", "phase"}
                    /\ m.call_id = "call_1"}

\* the structured updates that merge dimension fields
NextMerge ==
  \/ \E m \in MergeMessages : toolCallCount < MaxPatches /\ OnFunctionCallDone(m)
  \/ Second

SpecMerge == Init /\ [][NextMerge]_vars

\* the structured updates over the life of the connections: a session ends,
\* the start button is clicked again
NextLife ==
  \/ \E m \in Messages : toolCallCount < MaxPatches /\ OnFunctionCallDone(m)
  \/ OnClose
  \/ OnError
  \/ OnErrorMessage
  \/ Connect
  \/ OnOpen
  \/ StaleClose
  \/ Second

SpecLife == Init /\ [][NextLife]_vars

\* a session with playback, the two toggles and the report dialog; ended by
\* the user, by the remote side, by an error or by a refused microphone, and
\* started again
NextDevices ==
  \/ \E b \in DeviceLens : nextId < MaxDeviceFrames /\ Enqueue(b)
  \/ \E n \in nodes : OnEnded(n)
  \/ Second
  \/ connectionState = "CONNECTED" /\ ~showEmailModal /\ ToggleMute
  \/ connectionState = "CONNECTED" /\ ~showEmailModal /\ TogglePause
  \/ HandleDisconnectBtn
  \/ SkipAndEnd
  \/ HandleFinalizeSession
  \/ HandleSelectKey
  \/ OnClose
  \/ OnError
  \/ Connect
  \/ ConnectDenied
  \/ OnOpen
  \/ StaleClose

SpecDevices == Init /\ [][NextDevices]_vars

\* the two sample conversions, one after the other, for every pair of bytes
NextCodec ==
  \/ codec.stage = "idle" /\ \E lo, hi \in Bytes : DecodeSample(lo, hi)
  \/ EncodeSample

SpecCodec == Init /\ [][NextCodec]_vars

\* the conversion of a captured sample to 16 bits, for every sample explored
NextCapture ==
  \/ codec.stage = "idle" /\ \E num \in CaptureNums : CaptureSample(num)
  \/ ConvertSample

SpecCapture == Init /\ [][NextCapture]_vars

\* the session monitor of a connected session, with the structured updates
\* that set confidences and the pause button
NextMonitor ==
  \/ \E m \in MonitorMessages : toolCallCount < MaxPatches /\ OnFunctionCallDone(m)
  \/ Monitor
  \/ Minutes
  \/ TogglePause
  \/ OnClose

SpecMonitor == Init /\ [][NextMonitor]_vars

\* the session monitor over a session that ends by a close of the socket and
\* the session started after it
NextRestart ==
  \/ \E m \in MonitorMessages : toolCallCount < MaxPatches /\ OnFunctionCallDone(m)
  \/ Monitor
  \/ Minutes
  \/ OnClose
  \/ Connect
  \/ OnOpen

SpecRestart == Init /\ [][NextRestart]_vars

(* ------------------------------- claims -------------------------------- *)

RECURSIVE SumDur(_, _)
\* the sum of the durations of the first k buffers of the run
SumDur(run, k) == IF k = 0 THEN 0 ELSE SumDur(run, k - 1) + run[k].dur

\* the tracked nodes: the source nodes that are in sourcesRef
Tracked == {n \in nodes : n.id \in sources}

\* the last handler was the capture callback and it sent the block
BlockSent == lastOp = "mic" /\ outbox = <<"input_audio_buffer.append">>

\* C1, as stated: in a run of frames enqueued with no barge-in in between,
\* the i-th buffer starts at the first buffer's start plus the durations of
\* the buffers before it.
C1_GaplessAlways ==
  \A i \in 1..Len(schedule) :
    schedule[i].start = schedule[1].start + SumDur(schedule, i - 1)

\* C1, amended: the same holds for every buffer up to which no frame after
\* the first was enqueued with the cursor behind the output clock; a frame
\* that is enqueued late starts at the clock, which leaves a gap and never
\* an overlap.
C1_GaplessInTime ==
  \A i \in 1..Len(schedule) :
    /\ schedule[i].start >= schedule[1].start + SumDur(schedule, i - 1)
    /\ (\A j \in 2..i : ~schedule[j].late)
         => schedule[i].start = schedule[1].start + SumDur(schedule, i - 1)

\* three 4096-sample frames enqueued with the output clock at 0 start at
\* 0, 4096 and 8192 samples
C1_Witness ==
  /\ Len(schedule) = 3
  /\ \A i \in 1..3 : schedule[i].dur = 4096
  /\ currentTime = 0
  /\ schedule[1].start = 0 /\ schedule[2].start = 4096 /\ schedule[3].start = 8192

\* C2: buffers get their start times in arrival order and do not overlap:
\* a tracked buffer starts at or after the end of every earlier tracked one.
C2_NoOverlap ==
  \A a, b \in Tracked : a.id < b.id => a.start <= b.start /\ a.end <= b.start

\* two tracked buffers scheduled after a barge-in and a clock advance, the
\* stopped buffer still awaiting its ended event
C2_Witness ==
  /\ \E a, b \in Tracked : a.id < b.id /\ a.start > 0
  /\ \E n \in nodes : n.stopped

\* C3: right after a barge-in the set of active sources is empty, the
\* speaking flag is false and the cursor is 0.
C3_BargeInClears ==
  lastOp = "bargeIn" => sources = {} /\ ~isAiSpeaking /\ nextStartTime = 0

\* a barge-in that stopped buffers while a completion timer was pending
C3_Witness ==
  lastOp = "bargeIn" /\ timers # <<>> /\ \E n \in nodes : n.stopped

\* C4: the speaking flag is true iff a source is tracked, except for the
\* window after the last completion in which the flag is still true, the set
\* is empty and the 200 ms timer is pending.
C4_SpeakingIffActive ==
  /\ sources # {} => isAiSpeaking
  /\ (isAiSpeaking /\ sources = {}) => timers # <<>>

\* C5: no block is sent while muted, paused or while a tracked buffer is
\* sounding.
C5_CaptureGating ==
  BlockSent => ~isMuted /\ ~isPaused /\ ~(\E n \in Tracked : Audible(n))

\* C6: a block processed less than 500 ms after the recorded completion
\* timestamp is not sent; a block processed at or after 500 ms is sent when
\* not muted, not paused and the speaking flag is false.
C6_Cooldown ==
  /\ BlockSent => now - lastAiSpeechEndTime >= CooldownMs
  /\ (lastOp = "mic" /\ ~isMuted /\ ~isPaused /\ ~isAiSpeaking
        /\ now - lastAiSpeechEndTime >= CooldownMs) => BlockSent

\* a block sent exactly 500 ms after a recorded completion
C6_Witness ==
  BlockSent /\ lastAiSpeechEndTime > 0 /\ now - lastAiSpeechEndTime = CooldownMs

\* C7: after a barge-in, with no frame enqueued since and neither mute nor
\* pause, every microphone block is sent.
C7_BargeInResumesCapture ==
  (lastOp = "mic" /\ bargedNoAudio /\ ~isMuted /\ ~isPaused) => BlockSent

\* C8: a barge-in can be handled in every state of an open connection; the
\* playback state it leaves is one a further barge-in leaves unchanged; every
\* node that was in the graph is stopped by it, and a stopped node is never
\* tracked or sounding again.
C8_BargeInIdempotent ==
  /\ wsState = "OPEN" => ENABLED BargeIn
  /\ BargeInState(BargeInState(PlaybackState)) = BargeInState(PlaybackState)
  /\ lastOp = "bargeIn" =>
       /\ BargeInState(PlaybackState) = PlaybackState
       /\ \A n \in nodes : n.stopped
  /\ \A n \in nodes : n.stopped => n.id \notin sources /\ ~Audible(n)

\* a barge-in that stopped a buffer before its start time was reached
C8_Witness ==
  lastOp = "bargeIn" /\ \E n \in nodes : n.stopped /\ n.start > currentTime

\* the patch sets field f of dimension k
PatchSetsField(args, k, f) ==
  /\ "dimensions" \in DOMAIN args
  /\ k \in DOMAIN args.dimensions
  /\ f \in DOMAIN args.dimensions[k]

\* the scores of the five dimensions
Scores(dims) == [c \in DimCodes |-> dims[c].score]

\* the scores a history point carries
PointScores(point) == [c \in DimCodes |-> point[c]]

\* the patch {dimensions: {DT: {score: 4.2}}, phase: "CORE"}
C9_Example == [dimensions |-> "DT" :> [score |-> 42], phase |-> "CORE"]

\* C9: the merge is field by field: a field the patch names takes the
\* patch's value, every other field of every dimension keeps its value and
\* none is removed; the example patch on the initial state changes DT.score
\* and the phase only, appends one history point with DT = 4.2 and the other
\* scores as before, and appends to neither log.
C9_FieldLevelMerge ==
  LET old == prevSession.dimensions
      new == sessionState.dimensions
  IN /\ DOMAIN old \subseteq DOMAIN new
     /\ \A k \in DOMAIN old : DOMAIN old[k] \subseteq DOMAIN new[k]
     /\ \A k \in DOMAIN new : \A f \in DOMAIN new[k] :
          IF PatchSetsField(lastArgs, k, f)
          THEN new[k][f] = lastArgs.dimensions[k][f]
          ELSE k \in DOMAIN old /\ f \in DOMAIN old[k] /\ new[k][f] = old[k][f]
     /\ (lastOp = "patch" /\ prevSession = INITIAL_SESSION_STATE
           /\ lastArgs = C9_Example) =>
          /\ new = [INITIAL_SESSION_STATE.dimensions EXCEPT !["DT"].score = 42]
          /\ sessionState.conversationPhase = "CORE"
          /\ Len(sessionState.scoreHistory) = 2
          /\ sessionState.scoreHistory[1] = INITIAL_SESSION_STATE.scoreHistory[1]
          /\ PointScores(sessionState.scoreHistory[2]) =
               [Scores(INITIAL_SESSION_STATE.dimensions) EXCEPT !["DT"] = 42]
          /\ sessionState.evidenceLog = <<>>
          /\ sessionState.contradictions = <<>>
          /\ sessionState.strengths = INITIAL_SESSION_STATE.strengths
          /\ sessionState.developmentPriorities =
               INITIAL_SESSION_STATE.developmentPriorities
          /\ sessionState.summary = INITIAL_SESSION_STATE.summary

\* the example patch applied to the initial state
C9_Witness ==
  /\ lastOp = "patch"
  /\ prevSession = INITIAL_SESSION_STATE
  /\ lastArgs = C9_Example
  /\ sessionState.dimensions["DT"].score = 42

\* C10: a patch that sets only phase leaves dimensions, both logs, strengths,
\* developmentPriorities, summary and the earlier history points as they
\* were; the phase is the patch's and one history point with the current
\* scores is appended.
C10_PhaseOnlyPatch ==
  (toolCallCount > 0 /\ DOMAIN lastArgs = {"phase"}) =>
    LET n == Len(prevSession.scoreHistory)
    IN /\ sessionState.dimensions = prevSession.dimensions
       /\ sessionState.evidenceLog = prevSession.evidenceLog
       /\ sessionState.contradictions = prevSession.contradictions
       /\ sessionState.strengths = prevSession.strengths
       /\ sessionState.developmentPriorities = prevSession.developmentPriorities
       /\ sessionState.summary = prevSession.summary
       /\ sessionState.conversationPhase = lastArgs.phase
       /\ Len(sessionState.scoreHistory) = n + 1
       /\ SubSeq(sessionState.scoreHistory, 1, n) = prevSession.scoreHistory
       /\ PointScores(sessionState.scoreHistory[n + 1]) =
            Scores(prevSession.dimensions)

\* a phase-only patch applied to a session that already holds evidence and
\* a changed score
C10_Witness ==
  /\ lastOp = "patch"
  /\ DOMAIN lastArgs = {"phase"}
  /\ prevSession.evidenceLog # <<>>
  /\ prevSession.dimensions["DT"].score = 42
  /\ sessionState.conversationPhase # prevSession.conversationPhase

\* log a is an initial segment of log b
IsPrefix(a, b) == Len(a) <= Len(b) /\ SubSeq(b, 1, Len(a)) = a

\* C11: no step of a session shortens the evidence log or the contradiction
\* log or changes an entry already in it: the log before the step is a prefix
\* of the log after it.
C11_AppendOnlyLogs ==
  [][/\ IsPrefix(sessionState.evidenceLog, sessionState'.evidenceLog)
     /\ IsPrefix(sessionState.contradictions, sessionState'.contradictions)]_vars

\* two different evidence items appended by two patches, in arrival order
C11_Witness ==
  /\ lastOp = "patch"
  /\ prevSession.evidenceLog = <<Ev1>>
  /\ sessionState.evidenceLog = <<Ev1, Ev2>>

\* C12: the history holds the initial point and one point per parsed update;
\* the point a patch appends carries the five scores as they are after the
\* merge and the whole seconds elapsed since the session start, and the
\* earlier points stay.
C12_OnePointPerPatch ==
  /\ Len(sessionState.scoreHistory) = 1 + toolCallCount
  /\ lastOp = "patch" =>
       LET n == Len(prevSession.scoreHistory)
           h == sessionState.scoreHistory
       IN /\ Len(h) = n + 1
          /\ SubSeq(h, 1, n) = prevSession.scoreHistory
          /\ PointScores(h[n + 1]) = Scores(sessionState.dimensions)
          /\ h[n + 1].time = (now - sessionStartTime) \div 1000

\* a second patch, one second into the session, that changes TR only: its
\* point carries the DT score of the first patch and the new TR score
C12_Witness ==
  /\ lastOp = "patch"
  /\ toolCallCount = 2
  /\ "dimensions" \in DOMAIN lastArgs
  /\ lastArgs.dimensions = "TR" :> [score |-> 42]
  /\ sessionState.scoreHistory[3] =
       [time |-> 1, DT |-> 42, TR |-> 42, CO |-> 30, CA |-> 30, EP |-> 30]

\* the dimension fields a patch sets, as pairs of dimension and field
DimFields(args) ==
  IF "dimensions" \in DOMAIN args
  THEN UNION {{<<k, f>> : f \in DOMAIN args.dimensions[k]} : k \in DOMAIN args.dimensions}
  ELSE {}

\* the two patches set no dimension field in common
Independent(p, q) == DimFields(p) \cap DimFields(q) = {}

\* the patch sets dimension fields and the phase and nothing else
OnlyDimensions(args) == DOMAIN args = {"dimensions", "phase"}

\* the time of the last history point
LastTime(s) == s.scoreHistory[Len(s.scoreHistory)].time

\* the session after the last patch p and then q
ThenApplied(q) == ApplyPatch(sessionState, q, Elapsed)

\* the session had q been applied before the last patch p, at the same times
FirstApplied(q) ==
  ApplyPatch(ApplyPatch(prevSession, q, LastTime(sessionState)), lastArgs, Elapsed)

\* C13, as stated: two patches that set disjoint dimension fields (and
\* nothing else but the same phase) give the same session state in either
\* order.
C13_CommutesWholeState ==
  lastOp = "patch" =>
    \A q \in PatchSet :
      (Independent(lastArgs, q) /\ OnlyDimensions(lastArgs) /\ OnlyDimensions(q)
         /\ lastArgs.phase = q.phase)
        => ThenApplied(q) = FirstApplied(q)

\* C13, amended: two patches that set disjoint dimension fields give the same
\* dimensions in either order; when they set nothing else but the same phase,
\* they also give the same logs, phase, strengths, priorities and summary, a
\* history of the same length and the same last point. A field both patches
\* set holds the value of the patch applied last.
C13_CommutesOnDimensions ==
  lastOp = "patch" =>
    /\ \A kf \in DimFields(lastArgs) :
         sessionState.dimensions[kf[1]][kf[2]] = lastArgs.dimensions[kf[1]][kf[2]]
    /\ \A q \in PatchSet :
         LET a == ThenApplied(q)
             b == FirstApplied(q)
         IN /\ \A kf \in DimFields(q) :
                 a.dimensions[kf[1]][kf[2]] = q.dimensions[kf[1]][kf[2]]
            /\ Independent(lastArgs, q) => a.dimensions = b.dimensions
            /\ (Independent(lastArgs, q) /\ OnlyDimensions(lastArgs)
                  /\ OnlyDimensions(q) /\ lastArgs.phase = q.phase) =>
                 /\ [a EXCEPT !.scoreHistory = <<>>] = [b EXCEPT !.scoreHistory = <<>>]
                 /\ Len(a.scoreHistory) = Len(b.scoreHistory)
                 /\ a.scoreHistory[Len(a.scoreHistory)] = b.scoreHistory[Len(b.scoreHistory)]

\* a patch that sets DT.score after a patch that set it to another value,
\* with patches at hand that set other fields of DT and fields of other
\* dimensions
C13_Witness ==
  /\ lastOp = "patch"
  /\ prevSession.dimensions["DT"].score = 42
  /\ <<"DT", "score">> \in DimFields(lastArgs)
  /\ sessionState.dimensions["DT"].score = 15
  /\ \E q \in PatchSet : Independent(lastArgs, q) /\ <<"DT", "confidence">> \in DimFields(q)
  /\ \E q \in PatchSet : Independent(lastArgs, q) /\ <<"TR", "score">> \in DimFields(q)

\* C14: a patch never lowers the evidenceCount of a dimension, and no
\* evidenceCount is negative.
C14_EvidenceCountMonotone ==
  \A k \in DimCodes :
    /\ sessionState.dimensions[k].evidenceCount >= prevSession.dimensions[k].evidenceCount
    /\ sessionState.dimensions[k].evidenceCount >= 0

\* the patch carries isComplete: true
IsComplete(args) == "isComplete" \in DOMAIN args /\ args.isComplete

\* C15: right after a patch with isComplete the connection state is COMPLETE,
\* the socket is closing and the session holds that patch's merge; no later
\* step of the session, the close event included, leaves COMPLETE.
C15_CompleteIsTerminal ==
  /\ []((lastOp = "patch" /\ IsComplete(lastArgs)) =>
          /\ connectionState = "COMPLETE"
          /\ wsState = "CLOSING"
          /\ sessionState = ApplyPatch(prevSession, lastArgs, Elapsed))
  /\ [][connectionState = "COMPLETE" =>
          connectionState' = "COMPLETE" /\ wsState' \in {"CLOSING", "CLOSED"}]_vars

\* the close event that follows a completing patch, the patch's summary merged
C15_Witness ==
  /\ lastOp = "onclose"
  /\ IsComplete(lastArgs)
  /\ connectionState = "COMPLETE"
  /\ wsState = "CLOSED"
  /\ sessionState.summary = "s2"
  /\ sessionState.conversationPhase = "CLOSING"

\* the connection states in which no session is live
Terminal == {"COMPLETE", "DISCONNECTED", "ERROR"}

\* C16: a step taken while the connection state is COMPLETE, DISCONNECTED or
\* ERROR leaves the session state as it is, except the start of a new
\* connection, which sets it to the initial state.
C16_FrozenOnceTerminal ==
  [][(connectionState \in Terminal) =>
       /\ lastOp' = "connect" => sessionState' = INITIAL_SESSION_STATE
       /\ lastOp' # "connect" => sessionState' = sessionState]_vars

\* C17: when the monitor has observed 20 minutes or more, the socket is
\* closed or closing, the connection state is not CONNECTED and the
\* hard-timeout message is shown.
C17_HardTimeoutDisconnects ==
  lastOp = "hardTimeout" =>
    /\ wsState \in {"CLOSING", "CLOSED"}
    /\ connectionState # "CONNECTED"
    /\ errorMsg = "Maximum session time reached (20 mins). Please finalize your report."

\* every one of the five dimensions has the confidence c
AllConfidence(c) == \A k \in DimCodes : sessionState.dimensions[k].confidence = c

\* C18: after a monitor callback that ran with 5 minutes or more elapsed
\* (below the cap, connected, not paused) and all five confidences HIGH, the
\* value DimensionState declares, the early-exit flag is raised.
C18_EarlyExitRaised ==
  (lastOp = "monitor" /\ ElapsedAtLeast(EarlyExitMinutes) /\ AllConfidence("HIGH"))
    => showEarlyExitButton

\* C19: no step of a session lowers the early-exit flag once it is raised,
\* whatever the confidences become.
C19_EarlyExitLatch ==
  [][showEarlyExitButton => showEarlyExitButton']_vars

\* the monitor ran again after a patch had taken DT below the confidence
\* that raised the flag, and the flag is still raised
C19_Witness ==
  /\ lastOp = "monitor"
  /\ showEarlyExitButton
  /\ ElapsedAtLeast(EarlyExitMinutes)
  /\ sessionState.dimensions["DT"].confidence = "medium"
  /\ prevSession.dimensions["DT"].confidence = "high"

\* the messages whose arguments are not JSON once the fence is stripped
Malformed == {m \in Messages : m.name = "updateAssessmentState" /\ ~m.json}

\* C20: the handler of a structured update whose arguments are not JSON
\* leaves the session state, the count of applied patches, the connection
\* state and the socket as they were; every patch parsed afterwards is merged
\* into the state it finds.
C20_MalformedPatchDropped ==
  /\ [][(\E m \in Malformed : OnFunctionCallDone(m)) =>
          /\ sessionState' = sessionState
          /\ toolCallCount' = toolCallCount
          /\ connectionState' = connectionState
          /\ wsState' = wsState]_vars
  /\ [](lastOp = "patch" => sessionState = ApplyPatch(prevSession, lastArgs, Elapsed))

\* a patch merged after a malformed update had been dropped, the connection
\* still up
C20_Witness ==
  /\ lastOp = "patch"
  /\ errorMsg = "Failed to update dashboard: Invalid AI data"
  /\ connectionState = "CONNECTED"
  /\ toolCallCount = 2
  /\ Len(sessionState.scoreHistory) = 3
  /\ sessionState.evidenceLog = <<Ev1, Ev2>>

\* C27: a patch with newEvidence leaves the evidence log as the log before
\* it followed by that one item, a patch without leaves it as it was; the
\* same for contradiction and the contradiction log.
C27_OneEntryPerPatch ==
  lastOp = "patch" =>
    /\ sessionState.evidenceLog =
         IF "newEvidence" \in DOMAIN lastArgs
         THEN prevSession.evidenceLog \o <<lastArgs.newEvidence>>
         ELSE prevSession.evidenceLog
    /\ sessionState.contradictions =
         IF "contradiction" \in DOMAIN lastArgs
         THEN prevSession.contradictions \o <<lastArgs.contradiction>>
         ELSE prevSession.contradictions

\* a patch with newEvidence and no contradiction, applied to logs that each
\* hold an entry
C27_Witness ==
  /\ lastOp = "patch"
  /\ "newEvidence" \in DOMAIN lastArgs
  /\ "contradiction" \notin DOMAIN lastArgs
  /\ prevSession.contradictions = <<Con1>>
  /\ sessionState.contradictions = <<Con1>>
  /\ sessionState.evidenceLog = <<Ev2>>

\* C28: after a patch each of phase, strengths, developmentPriorities and
\* summary holds the patch's value if the patch has the property, the empty
\* list and the empty string included, and the value before otherwise.
C28_OverwriteIffPresent ==
  lastOp = "patch" =>
    /\ sessionState.conversationPhase =
         IF "phase" \in DOMAIN lastArgs THEN lastArgs.phase
         ELSE prevSession.conversationPhase
    /\ sessionState.strengths =
         IF "strengths" \in DOMAIN lastArgs THEN lastArgs.strengths
         ELSE prevSession.strengths
    /\ sessionState.developmentPriorities =
         IF "developmentPriorities" \in DOMAIN lastArgs
         THEN lastArgs.developmentPriorities
         ELSE prevSession.developmentPriorities
    /\ sessionState.summary =
         IF "summary" \in DOMAIN lastArgs THEN lastArgs.summary
         ELSE prevSession.summary

\* C29: the session holds exactly the dimensions DT, TR, CO, CA and EP.
C29_FiveDimensions == DOMAIN sessionState.dimensions = DimCodes

\* the frames whose byte length is odd
OddLens == {b \in ByteLens : b % 2 = 1}

\* C24: the handler of a frame of odd byte length schedules nothing: no
\* source node is created or tracked, the cursor and the speaking flag stay.
C24_OddLengthRejected ==
  [][(\E b \in OddLens : Enqueue(b)) =>
       /\ nodes' = nodes
       /\ sources' = sources
       /\ nextStartTime' = nextStartTime
       /\ isAiSpeaking' = isAiSpeaking]_vars

\* the larger of two times
Later(a, b) == IF a < b THEN b ELSE a

\* the ways the cursor changes: advanced by the duration of the buffer the
\* step schedules, from the later of cursor and output clock, or reset to 0
\* by a barge-in or a disconnect
CursorStep ==
  \/ nextStartTime' = nextStartTime
  \/ /\ lastOp' = "enqueue"
     /\ Len(schedule') > 0
     /\ nextStartTime' =
          Later(nextStartTime, currentTime) + schedule'[Len(schedule')].dur
  \/ lastOp' \in {"bargeIn"} \cup DisconnectOps /\ nextStartTime' = 0

\* C25, as stated: the cursor is never behind the output clock, and it
\* changes only by the advance or the reset.
C25_CursorNeverBehind ==
  [](nextStartTime >= currentTime) /\ [][CursorStep]_vars

\* C25, amended: right after a frame is scheduled the cursor is ahead of the
\* output clock by at least the buffer's duration and the buffer starts at or
\* after the clock; the cursor changes only by the advance or the reset.
\* Between frames the cursor may be behind the clock.
C25_CursorAheadWhenScheduled ==
  /\ []((lastOp = "enqueue" /\ Len(schedule) > 0) =>
          /\ schedule[Len(schedule)].start >= currentTime
          /\ nextStartTime >= currentTime + schedule[Len(schedule)].dur)
  /\ [][CursorStep]_vars

\* a frame scheduled after a barge-in had reset the cursor and the clock had
\* moved on: it starts at the clock
C25_Witness ==
  /\ lastOp = "enqueue"
  /\ Len(schedule) = 1
  /\ schedule[1].late
  /\ currentTime > 0
  /\ schedule[1].start = currentTime
  /\ nextStartTime = currentTime + schedule[1].dur
  /\ \E n \in nodes : n.stopped


\* C30: the handler of a malformed structured update and the handler of an
\* undecodable audio frame leave the user-visible error message as it was.
C30_NonFatalSilent ==
  [][(lastOp' \in {"patchError", "decodeError"}) => errorMsg' = errorMsg]_vars


\* C21: when the socket of a connected session is closed by the remote side,
\* or a message of type error arrives, the connection state becomes ERROR.
C21_TransportErrorTerminal ==
  [][(connectionState = "CONNECTED" /\ wsState = "OPEN"
        /\ (OnClose \/ OnErrorMessage)) => connectionState' = "ERROR"]_vars


\* the distance of two integers
Distance(a, b) == IF a < b THEN b - a ELSE a - b

\* C23: a 16-bit sample converted to float and back differs from the sample
\* by at most 1 (not at all when it is zero or negative, by 1 when positive).
C23_RoundTripWithinOne ==
  codec.stage = "encoded" =>
    /\ Distance(codec.out, codec.int16) <= 1
    /\ codec.out = IF codec.int16 > 0 THEN codec.int16 - 1 ELSE codec.int16

\* the largest sample, bytes FF 7F, comes back one smaller
C23_Witness ==
  /\ codec.stage = "encoded"
  /\ codec.lo = 255 /\ codec.hi = 127
  /\ codec.int16 = 32767
  /\ codec.out = 32766


\* C22: in every state disconnect can be called, fully connected, connecting
\* or disconnected; a second call right after the first changes nothing; after
\* a handler that called it the socket is closing or closed, no ref holds a
\* stream, context, processor or source node, no source is tracked, the cursor
\* is 0, and the agent-speaking flag, mute and pause are false.
C22_DisconnectIdempotent ==
  /\ DisconnectState(DisconnectState(DeviceState)) = DisconnectState(DeviceState)
  /\ lastOp \in DisconnectOps =>
       /\ DisconnectState(DeviceState) = DeviceState
       /\ wsState \in {"CLOSING", "ABORTING", "CLOSED"}
       /\ refs = {}
       /\ sources = {}
       /\ nextStartTime = 0
       /\ ~isAiSpeaking /\ ~isMuted /\ ~isPaused

\* disconnect called on a session already disconnected, which had been ended
\* from the report dialog while audio was playing
C22_Witness ==
  /\ lastOp = "selectKey"
  /\ connectionState = "DISCONNECTED"
  /\ wsState \in {"CLOSING", "CLOSED"}
  /\ refs = {}
  /\ nodes # {}
  /\ connects = 1

\* disconnect called while connecting: the contexts and the stream exist, the
\* source node and the processor do not
C22_WitnessPartial ==
  /\ lastOp = "selectKey"
  /\ wsState = "ABORTING"
  /\ refs = {}
  /\ connects = 2


\* a frame or a barge-in has arrived
Interrupted == lastOp \in {"enqueue", "bargeIn"}

\* C26: a source leaves the tracked set once, when its ended event is
\* dispatched (or at a barge-in), and every tracked source leaves it; when
\* the ended handler leaves the set empty it arms a timer 200 ms ahead, the
\* callback runs when that time has come, clears the agent-speaking flag and
\* records the time; and unless a frame or a barge-in arrives the callback does
\* run, and afterwards a captured block is sent, 500 ms or more after the
\* recorded time.
C26_NaturalCompletion ==
  /\ [](\A i \in sources : i < nextId)
  /\ [][/\ \A i \in sources' \ sources : lastOp' = "enqueue" /\ i = nextId
        /\ (sources' # sources /\ lastOp' = "onended") =>
              \E n \in nodes : /\ Ended(n)
                               /\ nodes' = nodes \ {n}
                               /\ sources = sources' \cup {n.id}
        /\ (lastOp' = "onended" /\ sources' = {}) =>
              timers' = Append(timers, now + TimerDelayMs)
        /\ (lastOp' = "timer") =>
              /\ Head(timers) = now
              /\ ~isAiSpeaking'
              /\ lastAiSpeechEndTime' = now]_vars
  /\ \A i \in 0..(MaxFairFrames - 1) : (i \in sources) ~> (i \notin sources)
  /\ (lastOp = "onended" /\ sources = {}) ~>
       ((lastOp = "timer" /\ ~isAiSpeaking /\ lastAiSpeechEndTime = now)
          \/ Interrupted)
  /\ (lastOp = "timer" /\ sources = {}) ~>
       ((BlockSent /\ ~isAiSpeaking /\ now - lastAiSpeechEndTime >= CooldownMs)
          \/ Interrupted)

\* a block is sent after the only frame has played out, its timer has fired
\* and the cooldown has passed, with no barge-in
C26_Witness ==
  /\ BlockSent
  /\ nextId = 1
  /\ nodes = {} /\ sources = {} /\ timers = <<>>
  /\ ~isAiSpeaking
  /\ ~bargedNoAudio
  /\ lastAiSpeechEndTime > WallStart
  /\ now = lastAiSpeechEndTime + CooldownMs


\* the message of the error connectToOpenAI throws when getUserMedia rejects
MicrophoneDenied ==
  "Microphone permission denied. Please allow access in your browser settings."

\* a step that begins a connection attempt: the state becomes CONNECTING or
\* a socket is created
AttemptBegins ==
  \/ connectionState' = "CONNECTING" /\ connectionState # "CONNECTING"
  \/ wsState' = "CONNECTING" /\ wsState # "CONNECTING"
  \/ Len(oldSockets') > Len(oldSockets)

\* C31: when the microphone is refused no socket is created (the socket in
\* sessionRef is the one of the session before, closed by disconnect), no ref
\* holds an audio object afterwards, the connection state is ERROR and the
\* message names the microphone; and a connection attempt (the state
\* CONNECTING, a socket connecting) begins only with a click on the start
\* button.
C31_DeviceErrorFatal ==
  /\ [][ConnectDenied =>
          /\ wsState' = AfterCloseCall(wsState)
          /\ wsState' \notin {"CONNECTING", "OPEN"}
          /\ oldSockets' = oldSockets
          /\ refs' = {}
          /\ connectionState' = "ERROR"
          /\ errorMsg' = MicrophoneDenied]_vars
  /\ [][AttemptBegins => (lastOp' = "connect" /\ connects' = connects + 1)]_vars

\* the microphone was refused on the second click on the start button, after
\* the remote side had closed the first session
C31_Witness ==
  /\ lastOp = "connectDenied"
  /\ connects = 2
  /\ connectionState = "ERROR"
  /\ errorMsg = MicrophoneDenied
  /\ wsState = "CLOSED"
  /\ refs = {}


\* C32: while the connection state is COMPLETE, DISCONNECTED or ERROR the
\* microphone stream, the capture context and the output context are
\* released: no ref holds one and none is live without a ref.
C32_ReleasedWhenTerminal ==
  connectionState \in {"COMPLETE", "DISCONNECTED", "ERROR"} =>
    (refs \cup orphans) \cap ConnectDevices = {}


\* the limits of a signed 16-bit integer
Int16Range == -32768 .. 32767

\* C33: a captured sample above 1.0 is converted to 32767 and one below -1.0
\* to -32768, as 1.0 and -1.0 are; a negative sample in range gives the
\* integer part of 32768 times the sample, a non-negative one the integer part
\* of 32767 times the sample; the result is in [-32768, 32767] and is the
\* scaled value itself, not its remainder modulo 2^16.
C33_ClampBeforeScale ==
  codec.stage = "converted" =>
    LET x == codec.float
        above == x.num > x.den
        below == x.num < -x.den
        y == Scaled(Clamp(x))
    IN /\ codec.out \in Int16Range
       /\ above => codec.out = 32767
       /\ below => codec.out = -32768
       /\ (~above /\ ~below /\ x.num < 0) =>
            codec.out = -((-x.num * 32768) \div x.den)
       /\ (~above /\ ~below /\ x.num >= 0) =>
            codec.out = (x.num * 32767) \div x.den
       /\ codec.out = Truncate(y.num, y.den)
       /\ Float32ToInt16([num |-> 1, den |-> 1]) = 32767
       /\ Float32ToInt16([num |-> -1, den |-> 1]) = -32768

\* the sample 2.0, clamped to 1.0 and converted to 32767
C33_Witness ==
  /\ codec.stage = "converted"
  /\ codec.float = [num |-> 2 * CaptureDen, den |-> CaptureDen]
  /\ codec.out = 32767


\* the messages of an outbox, as a set
Sent == {outbox[i] : i \in 1..Len(outbox)}

\* C34: while the socket is open a speech_started message is handled, whatever
\* the playback state; its handler stops every tracked source, leaves the
\* playback state cleared and has sent one input_audio_buffer.clear and
\* nothing else; no other handler sends that message.
C34_BargeInSendsClear ==
  /\ [](wsState = "OPEN" => ENABLED BargeIn)
  /\ []("input_audio_buffer.clear" \in Sent => lastOp = "bargeIn")
  /\ [][BargeIn =>
          /\ outbox' = <<"input_audio_buffer.clear">>
          /\ sources' = {} /\ ~isAiSpeaking'
          /\ nextStartTime' = 0 /\ lastAiSpeechEndTime' = 0
          /\ \A n \in nodes' : n.id \in sources => n.stopped]_vars

\* the clear message sent by a barge-in that stopped two tracked buffers
C34_Witness ==
  /\ lastOp = "bargeIn"
  /\ outbox = <<"input_audio_buffer.clear">>
  /\ Cardinality({n \in nodes : n.stopped}) = 2
  /\ sources = {}


\* the call ids of the injections of the sidecar
SidecarIds == {"sidecar_1"}

\* the messages the handler of m is to send
Reply(m) ==
  IF m.name = "updateAssessmentState" /\ m.json /\ m.call_id \notin SidecarIds
  THEN <<"conversation.item.create function_call_output " \o m.call_id,
         "response.create">>
  ELSE <<>>

\* C35: the handler of a structured update that is parsed and whose call id
\* is not one of the sidecar sends the function_call_output item with that
\* call id and then response.create, and nothing else; for a call id of the
\* sidecar, for arguments that are not JSON and for another tool it sends
\* nothing.
C35_ReplyProtocol ==
  [][(\A m \in ReplyMessages : OnFunctionCallDone(m) => outbox' = Reply(m))]_vars

\* the reply to a call of the model with the call id call_2, the second
\* update merged
C35_Witness ==
  /\ lastOp = "patch"
  /\ toolCallCount = 2
  /\ outbox = <<"conversation.item.create function_call_output call_2",
                "response.create">>
  /\ sessionState.evidenceLog = <<Ev1>>
  /\ sessionState.conversationPhase = "VALIDATION"


\* C36: once the client has called close() on the socket, no handler sends a
\* message on it.
C36_NoSendAfterClose ==
  wsState \in {"CLOSING", "ABORTING", "CLOSED"} => outbox = <<>>


\* a close event of the live socket, or of a replaced socket that had been
\* established (the close of a socket failed before it was established
\* follows that socket's error event, which is not the close event's effect)
ClosedBySocket == OnClose \/ (StaleClose /\ Head(oldSockets) # "ABORTING")

\* C37: a close event leaves a connection state of ERROR or COMPLETE as it
\* is and turns every other connection state into DISCONNECTED; the close
\* event that follows a finalization leaves COMPLETE, and after an error
\* event with its close the connection state is ERROR.
C37_CloseKeepsTerminal ==
  /\ [][ClosedBySocket =>
          connectionState' = IF connectionState \in {"ERROR", "COMPLETE"}
                             THEN connectionState
                             ELSE "DISCONNECTED"]_vars
  /\ [][(lastOp = "finalize" /\ ClosedBySocket) => connectionState' = "COMPLETE"]_vars
  /\ [](lastOp = "onerror" => (connectionState = "ERROR" /\ wsState = "CLOSED"))

\* the close event of the socket that a finalization closed: the report
\* dialog is gone, every device is released, the state is still COMPLETE
C37_Witness ==
  /\ lastOp = "onclose"
  /\ connectionState = "COMPLETE"
  /\ wsState = "CLOSED"
  /\ ~showEmailModal
  /\ refs = {}


\* C38: when a connection has just been started or established, the
\* early-exit flag is not raised.
C38_FlagLoweredAtStart ==
  lastOp \in {"connect", "onopen"} => ~showEarlyExitButton

=============================================================================
